---------------------------- MODULE Spec2Model ----------------------------
(***************************************************************************)
(* dusudoku: a sudoku solver (src/dusudoku.cpp).  main() hands argv[1] to  *)
(* readInput, which fills the struct sudoku (grid plus the three bitset    *)
(* families) or reports an error, and then calls the recursive solve(0,&s).*)
(* The recursion is modelled with an explicit call stack: one frame per    *)
(* active invocation of solve.                                             *)
(***************************************************************************)
EXTENDS Integers, Sequences, FiniteSets, TLC

\* ------------------------------------------------------------------------
\* Program constants
\* ------------------------------------------------------------------------
DASH == 45
NUMERAL_ZERO == 48
NUMERAL_NINE == 57
\* int grid[81]
GridSize == 81
\* bitset<9> columns[9], rows[9], subgrid[9]
Nine == 9

ninths ==
  << 0, 0, 0, 1, 1, 1, 2, 2, 2,
     0, 0, 0, 1, 1, 1, 2, 2, 2,
     0, 0, 0, 1, 1, 1, 2, 2, 2,
     3, 3, 3, 4, 4, 4, 5, 5, 5,
     3, 3, 3, 4, 4, 4, 5, 5, 5,
     3, 3, 3, 4, 4, 4, 5, 5, 5,
     6, 6, 6, 7, 7, 7, 8, 8, 8,
     6, 6, 6, 7, 7, 7, 8, 8, 8,
     6, 6, 6, 7, 7, 7, 8, 8, 8 >>

Pos == 0 .. (GridSize - 1)
Idx == 0 .. (Nine - 1)

\* int c_i = i%9;  int r_i = floor(i/9);  int s_i = ninths[i];
ColOf(p) == p % Nine
RowOf(p) == p \div Nine
SubOf(p) == ninths[p + 1]

\* ------------------------------------------------------------------------
\* struct sudoku: a record of the grid and the three bitset families.  A
\* bitset<9> is the set of its set bit positions.  A grid cell that has not
\* been written yet holds Indeterminate, a value no written cell can hold;
\* readInput writes every cell before solve reads any.
\* ------------------------------------------------------------------------
Indeterminate == -1

\* `sudoku s;' in main: the bitsets are default-constructed (all bits
\* clear), the int array is left unwritten.
FreshSudoku ==
  [ grid    |-> [p \in Pos |-> Indeterminate],
    columns |-> [k \in Idx |-> {}],
    rows    |-> [k \in Idx |-> {}],
    subgrid |-> [k \in Idx |-> {}] ]

\* s->columns[c_i].set(b); s->rows[r_i].set(b); s->subgrid[s_i].set(b);
SetBits(s, p, b) ==
  [ s EXCEPT !.columns[ColOf(p)] = @ \cup {b},
             !.rows[RowOf(p)]    = @ \cup {b},
             !.subgrid[SubOf(p)] = @ \cup {b} ]

\* ResetBits without its third statement.
ResetBits_NoSubgrid(s, p, b) ==
  [ s EXCEPT !.columns[ColOf(p)] = @ \ {b},
             !.rows[RowOf(p)]    = @ \ {b} ]

\* s->columns[c_i].reset(b); s->rows[r_i].reset(b); s->subgrid[s_i].reset(b);
ResetBits(s, p, b) ==
  [ s EXCEPT !.columns[ColOf(p)] = @ \ {b},
             !.rows[RowOf(p)]    = @ \ {b},
             !.subgrid[SubOf(p)] = @ \ {b} ]

\* ------------------------------------------------------------------------
\* readInput
\* ------------------------------------------------------------------------
\* BadChar with the lower limit one too low: '/' passes.
BadChar_LowLimit(ch) ==
  (ch < NUMERAL_ZERO - 1 \/ ch > NUMERAL_NINE) /\ ch # DASH

\* BadChar without the exception for the dash.
BadChar_NoDash(ch) == ch < NUMERAL_ZERO \/ ch > NUMERAL_NINE

\* (input[i] < NUMERAL_ZERO || input[i] > NUMERAL_NINE) && input[i] != DASH
BadChar(ch) == (ch < NUMERAL_ZERO \/ ch > NUMERAL_NINE) /\ ch # DASH

\* int num = 0; if (input[i] != DASH) num = input[i]-NUMERAL_ZERO;
NumOf(ch) == IF ch # DASH THEN ch - NUMERAL_ZERO ELSE 0

\* The duplicate test of one non-empty cell: the error it raises, or
\* <<"ok">>: its kind, the digit, and the number the message ends with.
DupError(s, i, num) ==
  IF (num - 1) \in s.columns[ColOf(i)]
    THEN << "DuplicateInColumn", num, ColOf(i) + 1 >>
  ELSE IF (num - 1) \in s.rows[RowOf(i)]
    THEN << "DuplicateInRow", num, RowOf(i) + 1 >>
  ELSE IF (num - 1) \in s.subgrid[SubOf(i)]
    THEN << "DuplicateInSubgrid", num, ColOf(i) + 1 >>
  ELSE << "ok" >>

\* One iteration of the for loop of readInput, lines 122-156, at index i:
\* whether the loop goes on, the error message if it does not, and the
\* state it leaves.
ReadCell(input, s, i) ==
  LET ch == input[i + 1] IN
  IF BadChar(ch)
    THEN [ ok |-> FALSE, err |-> << "InvalidCharacter", ch >>, s |-> s ]
  ELSE
    LET num == NumOf(ch)
        s1  == [ s EXCEPT !.grid[i] = num ]
        e   == DupError(s1, i, num)
    IN
    IF num > 0
      THEN IF e # << "ok" >>
             THEN [ ok |-> FALSE, err |-> e, s |-> s1 ]
             ELSE [ ok |-> TRUE, err |-> e, s |-> SetBits(s1, i, num - 1) ]
      ELSE [ ok |-> TRUE, err |-> << "ok" >>, s |-> s1 ]

\* for (int i = 0; i < 81; i++) { ... } return true;  from index i on
RECURSIVE ReadLoop(_, _, _)
ReadLoop(input, s, i) ==
  IF i >= GridSize THEN [ ok |-> TRUE, err |-> << "ok" >>, s |-> s ]
  ELSE LET r == ReadCell(input, s, i) IN
       IF r.ok THEN ReadLoop(input, r.s, i + 1) ELSE r

\* bool readInput(const char* input, sudoku* s, string* err)
readInput(input, s) ==
  IF Len(input) # GridSize
    THEN [ ok |-> FALSE, err |-> << "InvalidLength" >>, s |-> s ]
    ELSE ReadLoop(input, s, 0)

\* ------------------------------------------------------------------------
\* Inputs.  A puzzle is written cell by cell (0 = empty) and turned into the
\* command-line string: an empty cell is typed as a dash, a digit as its
\* ASCII numeral.
\* ------------------------------------------------------------------------
AsInput(cells) ==
  [ k \in 1 .. Len(cells) |->
      IF cells[k] = 0 THEN DASH ELSE NUMERAL_ZERO + cells[k] ]

\* The puzzle of the README and of the header comment of dusudoku.cpp.
ExampleCells ==
  << 5,3,0, 0,7,0, 0,0,0,
     6,0,0, 1,9,5, 0,0,0,
     0,9,8, 0,0,0, 0,6,0,
     8,0,0, 0,6,0, 0,0,3,
     4,0,0, 8,0,3, 0,0,1,
     7,0,0, 0,2,0, 0,0,6,
     0,6,0, 0,0,0, 2,8,0,
     0,0,0, 4,1,9, 0,0,5,
     0,0,0, 0,8,0, 0,7,9 >>

\* The output the README shows for it.
ExampleSolution ==
  << 5,3,4, 6,7,8, 9,1,2,
     6,7,2, 1,9,5, 3,4,8,
     1,9,8, 3,4,2, 5,6,7,
     8,5,9, 7,6,1, 4,2,3,
     4,2,6, 8,5,3, 7,9,1,
     7,1,3, 9,2,4, 8,5,6,
     9,6,1, 5,3,7, 2,8,4,
     2,8,7, 4,1,9, 6,3,5,
     3,4,5, 2,8,6, 1,7,9 >>

\* A second complete legal grid.
ShiftedGrid ==
  << 1,2,3, 4,5,6, 7,8,9,
     4,5,6, 7,8,9, 1,2,3,
     7,8,9, 1,2,3, 4,5,6,
     2,1,4, 3,6,5, 8,9,7,
     3,6,5, 8,9,7, 2,1,4,
     8,9,7, 2,1,4, 3,6,5,
     5,3,1, 6,4,2, 9,7,8,
     6,4,2, 9,7,8, 5,3,1,
     9,7,8, 5,3,1, 6,4,2 >>

\* cells with every occurrence of the digits of ds emptied.
Blanked(cells, ds) ==
  [ k \in 1 .. Len(cells) |-> IF cells[k] \in ds THEN 0 ELSE cells[k] ]

\* The grids the checked inputs are derived from: two complete grids and a
\* grid of 18 empty cells that has four completions.
Bases ==
  { AsInput(ExampleSolution), AsInput(ShiftedGrid),
    AsInput(Blanked(ExampleSolution, {4, 9})) }

\* An input is a base with at most MaxEdits of the cells EditPos retyped
\* with a character of Alphabet ('-', '/', '0'..'9', ':'), and possibly
\* one character shorter or longer.
MaxEdits == 2
EditPos == { 2, 6, 33, 43 }
Alphabet == { DASH, NUMERAL_ZERO - 1, NUMERAL_NINE + 1 }
              \cup (NUMERAL_ZERO .. NUMERAL_NINE)

Edited(base, f) ==
  [ k \in 1 .. Len(base) |->
      IF (k - 1) \in DOMAIN f THEN f[k - 1] ELSE base[k] ]

Resized(str, how) ==
  CASE how = "short" -> SubSeq(str, 1, Len(str) - 1)
    [] how = "long"  -> Append(str, DASH)
    [] OTHER         -> str

Inputs ==
  { Resized(Edited(b, f), how) :
      b \in Bases,
      f \in UNION { [ps -> Alphabet] :
                      ps \in { q \in SUBSET EditPos : Cardinality(q) <= MaxEdits } },
      how \in { "same", "short", "long" } }

\* ------------------------------------------------------------------------
\* State
\* ------------------------------------------------------------------------
VARIABLES
  input,       \* argv[1]
  pc,          \* where main is: "start", "solving", "done"
  s,           \* sudoku s
  errMsg,      \* string errMsg, as the error it describes
  stack,       \* the active invocations of solve, innermost last
  ret,         \* what the last finished invocation returned, or "none"
  exitCode,    \* what main returns, or "none"
  output,      \* what main prints after "solving..."
  record,      \* history: whether invocations record s as it is on entry
  retEntry,    \* history: s as it was when the last finished invocation began
  placements,  \* history: how often line 190 ran
  undos        \* history: how often line 198 ran

vars == << input, pc, s, errMsg, stack, ret, exitCode, output,
           record, retEntry, placements, undos >>

\* One invocation solve(p, s): its argument, the loop variable i, where it
\* is ("entry": at its first line; "skip": inside the call of line 173;
\* "call": inside the call of line 192; "loop": at the head of the for loop)
\* and, as history where it is recorded, the struct as it was on entry.
NoSnapshot == << >>

Frame(p, st) ==
  [ p |-> p, i |-> 0, at |-> "entry",
    entry |-> IF record THEN st ELSE NoSnapshot ]

Top == stack[Len(stack)]
Pop == SubSeq(stack, 1, Len(stack) - 1)
SetTop(f) == [ stack EXCEPT ![Len(stack)] = f ]

InitWith(in, rec) ==
  /\ input = in
  /\ record = rec
  /\ pc = "start"
  /\ s = FreshSudoku
  /\ errMsg = << "none" >>
  /\ stack = << >>
  /\ ret = "none"
  /\ exitCode = "none"
  /\ output = << >>
  /\ retEntry = NoSnapshot
  /\ placements = 0
  /\ undos = 0

Init == \E in \in Inputs : InitWith(in, TRUE)

\* ------------------------------------------------------------------------
\* main, lines 75-85: read the input; on failure print the error and return
\* 1, otherwise call solve(0, &s).
\* ------------------------------------------------------------------------
AtReadInput == pc = "start"

ReadInput ==
  /\ AtReadInput
  /\ LET r == readInput(input, s) IN
       /\ s' = r.s
       /\ IF r.ok
            THEN /\ pc' = "solving"
                 /\ stack' = << Frame(0, r.s) >>
                 /\ UNCHANGED << errMsg, exitCode >>
            ELSE /\ pc' = "done"
                 /\ errMsg' = r.err
                 /\ exitCode' = 1
                 /\ UNCHANGED stack
  /\ UNCHANGED << input, record, ret, output, retEntry, placements, undos >>

\* ------------------------------------------------------------------------
\* solve
\* ------------------------------------------------------------------------
\* if (p == 81)
AtEnd(p) == p = GridSize

\* IsSet with the limit one too high: a 1 counts as empty.
IsSet_AboveOne(st, p) == st.grid[p] > 1

\* if (s->grid[p] > 0)
IsSet(st, p) == st.grid[p] > 0

\* NextPos without the increment: solve(p, s).
NextPos_Same(p) == p

\* the argument of both recursive calls: solve(p+1, s)
NextPos(p) == p + 1

\* InLoop one iteration short: the digit 9 is never tried.
InLoop_Eight(i) == i < Nine - 1

\* for (...; i < 9; ...)
InLoop(i) == i < Nine

\* Blocked without the subgrid test.
Blocked_NoSubgrid(st, p, i) ==
  \/ i \in st.columns[ColOf(p)]
  \/ i \in st.rows[RowOf(p)]

\* s->columns[c_i][i] || s->rows[r_i][i] || s->subgrid[s_i][i]
Blocked(st, p, i) ==
  \/ i \in st.columns[ColOf(p)]
  \/ i \in st.rows[RowOf(p)]
  \/ i \in st.subgrid[SubOf(p)]

\* NextCandidate counting down: the largest digit not present, from i on.
NextCandidate_Desc(st, p, i) ==
  IF \E j \in i .. (Nine - 1) : ~Blocked(st, p, j)
    THEN CHOOSE j \in i .. (Nine - 1) :
           /\ ~Blocked(st, p, j)
           /\ \A k \in (j + 1) .. (Nine - 1) : Blocked(st, p, k)
    ELSE Nine

\* The loop variable at the first iteration from i on that does not
\* `continue', or Nine when the loop runs out.
RECURSIVE NextCandidate(_, _, _)
NextCandidate(st, p, i) ==
  IF ~InLoop(i) THEN i
  ELSE IF Blocked(st, p, i) THEN NextCandidate(st, p, i + 1)
  ELSE i

\* lines 187-190: the placement of digit i+1 at p
Place(st, p, i) == [ SetBits(st, p, i) EXCEPT !.grid[p] = i + 1 ]

\* Unplace without its last statement: the square keeps the digit.
Unplace_KeepCell(st, p, i) == ResetBits(st, p, i)

\* lines 195-198: the backtrack
Unplace(st, p, i) == [ ResetBits(st, p, i) EXCEPT !.grid[p] = 0 ]

Solving == pc = "solving" /\ stack # << >>

\* lines 168-170: the last square has been filled
AtSolveEnd == Solving /\ Top.at = "entry" /\ AtEnd(Top.p)

SolveEnd ==
  /\ AtSolveEnd
  /\ ret' = "true"
  /\ retEntry' = Top.entry
  /\ stack' = Pop
  /\ UNCHANGED << input, record, pc, s, errMsg, exitCode, output, placements, undos >>

\* lines 172-173: the square is already set; call solve(p+1, s)
AtSolveSkip ==
  Solving /\ Top.at = "entry" /\ ~AtEnd(Top.p) /\ IsSet(s, Top.p)

SolveSkip ==
  /\ AtSolveSkip
  /\ stack' = Append(SetTop([ Top EXCEPT !.at = "skip" ]),
                     Frame(NextPos(Top.p), s))
  /\ UNCHANGED << input, record, pc, s, errMsg, ret, exitCode, output,
                  retEntry, placements, undos >>

\* line 173: return what that call returned
AtSkipReturn == Solving /\ Top.at = "skip" /\ ret # "none"

SkipReturn ==
  /\ AtSkipReturn
  /\ retEntry' = Top.entry
  /\ stack' = Pop
  /\ UNCHANGED << input, record, pc, s, errMsg, ret, exitCode, output,
                  placements, undos >>

\* Where a frame stands at the head of the for loop: on entry with an
\* empty square (lines 172, 177-182) or after a backtrack.
AtLoopHead ==
  /\ Solving
  /\ \/ Top.at = "loop"
     \/ Top.at = "entry" /\ ~AtEnd(Top.p) /\ ~IsSet(s, Top.p)

\* lines 182-192: skip the digits already present, place the next one and
\* call solve(p+1, s)
AtSolvePlace == AtLoopHead /\ InLoop(NextCandidate(s, Top.p, Top.i))

SolvePlace ==
  /\ AtSolvePlace
  /\ LET i == NextCandidate(s, Top.p, Top.i) IN
       /\ s' = Place(s, Top.p, i)
       /\ stack' = Append(SetTop([ Top EXCEPT !.at = "call", !.i = i ]),
                          Frame(NextPos(Top.p), Place(s, Top.p, i)))
  /\ placements' = placements + 1
  /\ UNCHANGED << input, record, pc, errMsg, ret, exitCode, output, retEntry, undos >>

\* lines 182-184, 201: every remaining digit is present; return false
AtSolveExhausted == AtLoopHead /\ ~InLoop(NextCandidate(s, Top.p, Top.i))

SolveExhausted ==
  /\ AtSolveExhausted
  /\ ret' = "false"
  /\ retEntry' = Top.entry
  /\ stack' = Pop
  /\ UNCHANGED << input, record, pc, s, errMsg, exitCode, output, placements, undos >>

\* line 192: if (solve(p+1, s)) return true;
AtSolveFound == Solving /\ Top.at = "call" /\ ret = "true"

SolveFound ==
  /\ AtSolveFound
  /\ retEntry' = Top.entry
  /\ stack' = Pop
  /\ UNCHANGED << input, record, pc, s, errMsg, ret, exitCode, output,
                  placements, undos >>

\* lines 194-198 and the i++ of line 182: no solution, backtrack
AtSolveUndo == Solving /\ Top.at = "call" /\ ret = "false"

SolveUndo ==
  /\ AtSolveUndo
  /\ s' = Unplace(s, Top.p, Top.i)
  /\ stack' = SetTop([ Top EXCEPT !.at = "loop", !.i = Top.i + 1 ])
  /\ ret' = "none"
  /\ undos' = undos + 1
  /\ UNCHANGED << input, record, pc, errMsg, exitCode, output, retEntry, placements >>

\* main, lines 85-92: print the outcome and return 0
AtMainReturn == pc = "solving" /\ stack = << >> /\ ret # "none"

MainReturn ==
  /\ AtMainReturn
  /\ pc' = "done"
  /\ output' = IF ret = "true" THEN << "solution found!", s.grid >>
                      ELSE << "no solution" >>
  /\ exitCode' = 0
  /\ UNCHANGED << input, record, s, errMsg, stack, ret, retEntry, placements, undos >>

Next ==
  \/ ReadInput
  \/ SolveEnd
  \/ SolveSkip
  \/ SkipReturn
  \/ SolvePlace
  \/ SolveExhausted
  \/ SolveFound
  \/ SolveUndo
  \/ MainReturn

Spec == Init /\ [][Next]_vars

\* The run of the README: the same program on the one input it shows.
ExampleInit == InitWith(AsInput(ExampleCells), FALSE)

ExampleSpec == ExampleInit /\ [][Next]_vars

\* The bounded inputs and the README's together, for the properties of the
\* search that need no enumeration of completions.
SearchInit == Init \/ InitWith(AsInput(ExampleCells), TRUE)

SearchSpec == SearchInit /\ [][Next]_vars

\* ------------------------------------------------------------------------
\* Vocabulary of the properties, defined from the rules of sudoku and the
\* typed string, not from the program's tables.
\* ------------------------------------------------------------------------
Digits == 1 .. 9

\* The digit typed for cell p, 0 for an empty cell ('-' or '0').
InputCell(p) ==
  IF input[p + 1] \in 49 .. 57 THEN input[p + 1] - 48 ELSE 0

WellFormed ==
  /\ Len(input) = 81
  /\ \A k \in 1 .. 81 : input[k] \in ({45} \cup (48 .. 57))

Box(p) == 3 * (p \div 27) + ((p % 9) \div 3)

Peer(p, q) ==
  /\ p # q
  /\ \/ p \div 9 = q \div 9
     \/ p % 9 = q % 9
     \/ Box(p) = Box(q)

\* No digit twice in a row, column or 3x3 subgrid.
Legal(g) ==
  \A p \in Pos : g[p] > 0 =>
    \A q \in Pos : (q > p /\ Peer(p, q)) => g[q] # g[p]

Complete(g) == \A p \in Pos : g[p] \in Digits

InputGrid == [p \in Pos |-> InputCell(p)]

\* g is a complete legal grid that keeps every typed digit.
IsCompletion(g) ==
  /\ Complete(g)
  /\ Legal(g)
  /\ \A p \in Pos : InputCell(p) > 0 => g[p] = InputCell(p)

\* The digits cell h may take in g: those none of its peers holds.
Free(g, h) == Digits \ { g[q] : q \in { r \in Pos : Peer(h, r) } }

\* The k-th cell typed empty, counting from 1 in reading order.
Hole(k) ==
  CHOOSE h \in Pos :
    /\ InputCell(h) = 0
    /\ Cardinality({ x \in 0 .. (h - 1) : InputCell(x) = 0 }) = k - 1

\* The grids of gs, each with cell p filled in every way its peers allow.
Extend(gs, p) ==
  UNION { { [g EXCEPT ![p] = d] : d \in Free(g, p) } : g \in gs }

\* The grids of gs with the empty cells number k, k-1, ..., 1 filled so.
RECURSIVE FillDown(_, _)
FillDown(gs, k) ==
  IF k = 0 THEN gs
  ELSE UNION { FillDown(Extend(gs, h), k - 1) : h \in { Hole(k) } }

\* The valid completions of a well-formed, conflict-free input.
Completions ==
  FillDown({ InputGrid }, Cardinality({ p \in Pos : InputCell(p) = 0 }))

\* g comes before h when the cells are read from position 0 on.
LexLess(g, h) ==
  \E p \in Pos : g[p] < h[p] /\ \A q \in 0 .. (p - 1) : g[q] = h[q]

\* solve(0, &s) has returned b to main.
SolveReturned(b) == pc \in { "solving", "done" } /\ stack = << >> /\ ret = b

\* ------------------------------------------------------------------------
\* Properties
\* ------------------------------------------------------------------------

\* C1: whenever solve(0, state) returns true on a validated state, all 81
\* cells hold a digit 1-9, no digit occurs twice in a row, column or
\* subgrid, and every cell typed non-empty still holds its typed digit.
C1_SolvedGridIsLegalCompletion ==
  SolveReturned("true") => IsCompletion(s.grid)

C1_Witness ==
  SolveReturned("true") /\ placements > 0 /\ undos > 0

\* C2: on a validated state solve(0, state) terminates, and it returns
\* false exactly when the input has no valid completion.
C2_ReturnsFalseIffNoCompletion ==
  (stack = << >> /\ ret # "none") =>
    /\ (ret = "false") <=> (Completions = {})
    /\ \A c \in Completions : IsCompletion(c)

\* How far an invocation has got: 0 on entry, 1 inside the call of a set
\* square, 2i at the head of the loop with loop variable i, 2i+1 inside the
\* call made for it; 20 stands for an invocation that is not active.
Stage(f) ==
  CASE f.at = "entry" -> 0
    [] f.at = "skip"  -> 1
    [] f.at = "loop"  -> 2 * f.i
    [] f.at = "call"  -> 2 * f.i + 1

\* The progress of the whole run: where main is, then the stage of the
\* invocation at each of the 82 depths.
Rank(pcv, stk) ==
  [ k \in 0 .. 82 |->
      IF k = 0 THEN (CASE pcv = "start" -> 0 [] pcv = "solving" -> 1
                       [] pcv = "done" -> 2)
      ELSE IF k <= Len(stk) THEN Stage(stk[k]) ELSE 20 ]

RankLess(a, b) ==
  \E k \in 0 .. 82 : a[k] < b[k] /\ \A j \in 0 .. (k - 1) : a[j] = b[j]

\* Every step moves the run strictly up in the lexicographic order of
\* Rank, whose values are 83 numbers of 0..20 each: a run has finitely many
\* steps.
C2_EveryStepAdvances ==
  /\ Len(stack') <= 82
  /\ \A k \in 1 .. Len(stack') : stack'[k].i \in 0 .. 9
  /\ RankLess(Rank(pc, stack), Rank(pc', stack'))

\* Until main has returned, some statement is ready to run.
C2_NeverStuck ==
  (pc # "done") =>
    \/ AtReadInput \/ AtSolveEnd \/ AtSolveSkip \/ AtSkipReturn
    \/ AtSolvePlace \/ AtSolveExhausted \/ AtSolveFound \/ AtSolveUndo
    \/ AtMainReturn

\* C2, whole: the run cannot stop before main returns and cannot go on for
\* ever, and the value solve(0, state) returns is false exactly when the
\* input has no valid completion.
C2_TerminatesAndDecides ==
  [][ /\ C2_EveryStepAdvances
      /\ C2_NeverStuck /\ C2_NeverStuck'
      /\ C2_ReturnsFalseIffNoCompletion' ]_vars

C2_Witness ==
  SolveReturned("false") /\ placements > 0 /\ pc = "done"

\* C3: validating and solving the README's input succeeds and leaves the
\* grid the README shows.
C3_ExampleSolved ==
  pc = "done" =>
    /\ exitCode = 0
    /\ output[1] = "solution found!"
    /\ \A p \in Pos : s.grid[p] = ExampleSolution[p + 1]

C3_Witness ==
  pc = "done" /\ input = AsInput(ExampleCells) /\ undos > 0

\* The input is 81 digits 1-9 with no digit twice in a row, column or
\* subgrid.
CompleteLegalInput ==
  /\ Len(input) = 81
  /\ \A k \in 1 .. 81 : input[k] \in 49 .. 57
  /\ Legal(InputGrid)

\* C4: on an input that is already a complete legal sudoku, readInput
\* succeeds and solve(0, state) returns true with the grid identical to the
\* input, without entering the candidate loop: no placement and no undo.
C4_CompleteInputUnchanged ==
  CompleteLegalInput =>
    /\ placements = 0 /\ undos = 0 /\ ~AtLoopHead
    /\ errMsg = << "none" >>
    /\ ret # "false"
    /\ pc # "start" => s.grid = InputGrid
    /\ pc = "done" => exitCode = 0 /\ output = << "solution found!", InputGrid >>

C4_Witness ==
  CompleteLegalInput /\ pc = "done" /\ ret = "true"

\* C5 as stated: any input containing a character outside {'-','0'..'9'}
\* fails validation with InvalidCharacter identifying that character.
HasBadChar ==
  \E k \in 1 .. Len(input) : input[k] \notin ({45} \cup (48 .. 57))

C5_Original ==
  (pc = "done" /\ HasBadChar) =>
    /\ errMsg[1] = "InvalidCharacter"
    /\ errMsg[2] \notin ({45} \cup (48 .. 57))
    /\ \E k \in 1 .. Len(input) : input[k] = errMsg[2]

\* The position (from 0) of the first character outside the alphabet.
FirstBad ==
  CHOOSE p \in Pos :
    /\ input[p + 1] \notin ({45} \cup (48 .. 57))
    /\ \A q \in 0 .. (p - 1) : input[q + 1] \in ({45} \cup (48 .. 57))

\* Two equal digits in one row, column or subgrid, both typed before
\* position n.
ConflictBefore(n) ==
  \E q \in 0 .. (n - 1) : InputCell(q) > 0 /\
    \E p \in 0 .. (q - 1) : Peer(p, q) /\ InputCell(p) = InputCell(q)

\* C5 amended: an input containing a character outside {'-','0'..'9'}
\* always fails validation: with InvalidLength when it is not 81 characters
\* long; otherwise with InvalidCharacter identifying the first such
\* character, unless two equal digits share a row, column or subgrid before
\* it, and then with the duplicate error of that conflict.
C5_BadCharRejected ==
  (pc # "start" /\ HasBadChar) =>
    /\ pc = "done" /\ exitCode = 1
    /\ IF Len(input) # 81
         THEN errMsg = << "InvalidLength" >>
       ELSE IF ConflictBefore(FirstBad)
         THEN errMsg[1] \in { "DuplicateInColumn", "DuplicateInRow",
                              "DuplicateInSubgrid" }
       ELSE errMsg = << "InvalidCharacter", input[FirstBad + 1] >>

C5_Witness ==
  /\ pc = "done" /\ HasBadChar /\ Len(input) = 81
  /\ errMsg[1] = "InvalidCharacter"
  /\ FirstBad > 2

\* The pairs of equal typed digits that share a row, column or subgrid.
ConflictPairs ==
  { pq \in Pos \X Pos :
      /\ pq[1] < pq[2]
      /\ InputCell(pq[1]) > 0
      /\ InputCell(pq[1]) = InputCell(pq[2])
      /\ Peer(pq[1], pq[2]) }

\* What C6 says a single conflicting pair is reported as.
ExpectedDuplicate(pq) ==
  IF pq[1] % 9 = pq[2] % 9
    THEN << "DuplicateInColumn", InputCell(pq[2]), (pq[2] % 9) + 1 >>
  ELSE IF pq[1] \div 9 = pq[2] \div 9
    THEN << "DuplicateInRow", InputCell(pq[2]), (pq[2] \div 9) + 1 >>
  ELSE << "DuplicateInSubgrid", InputCell(pq[2]), Box(pq[2]) + 1 >>

\* C6: an 81-character input over {'-','0'..'9'} whose only conflict is
\* one pair of equal digits in the same row (resp. column, subgrid) fails
\* with DuplicateInRow (resp. DuplicateInColumn, DuplicateInSubgrid), and
\* the number reported is the 1-based number of that row (resp. column,
\* subgrid).
C6_SinglePairReported ==
  (pc = "done" /\ WellFormed /\ Cardinality(ConflictPairs) = 1) =>
    \A pq \in ConflictPairs : errMsg = ExpectedDuplicate(pq)

\* The cells of row, column and subgrid k.
RowCells(k) == { 9 * k + j : j \in 0 .. 8 }
ColCells(k) == { 9 * j + k : j \in 0 .. 8 }
BoxCells(k) ==
  { 27 * (k \div 3) + 3 * (k % 3) + 9 * i + j : i \in 0 .. 2, j \in 0 .. 2 }

\* The bits that stand for the digits held by the cells of a unit.
BitsOf(g, cells) == { g[p] - 1 : p \in { q \in cells : g[q] # 0 } }

InSync(st) ==
  \A k \in 0 .. 8 :
    /\ st.rows[k]    = BitsOf(st.grid, RowCells(k))
    /\ st.columns[k] = BitsOf(st.grid, ColCells(k))
    /\ st.subgrid[k] = BitsOf(st.grid, BoxCells(k))

\* C7: after a successful readInput and at every call and return of the
\* search, bit d-1 of rows[r] (columns[c], subgrid[b]) is set exactly when
\* some cell of that row (column, subgrid) holds d.
C7_ConstraintSetsInSync ==
  (pc = "solving" \/ (pc = "done" /\ exitCode = 0)) => InSync(s)

C7_Witness ==
  /\ pc = "solving" /\ stack # << >> /\ undos > 0
  /\ Top.at = "loop" /\ Top.i < 9

\* C8: when a call solve(p, state) returns false, the grid and all 27
\* constraint sets equal their values at the entry of that call.
C8_FalseReturnRestoresState ==
  (record /\ ret = "false") => s = retEntry

C8_Witness ==
  record /\ SolveReturned("false") /\ undos > 1 /\ s = retEntry

\* C9: when the input has a valid completion, the grid solve(0, state)
\* leaves is the valid completion that comes first when the cells are
\* compared from position 0 on.
C9_FirstCompletionInOrder ==
  (stack = << >> /\ ret # "none" /\ Completions # {}) =>
    /\ ret = "true"
    /\ s.grid \in Completions
    /\ \A c \in Completions : c = s.grid \/ LexLess(s.grid, c)

C9_Witness ==
  SolveReturned("true") /\ undos > 0 /\ Cardinality(Completions) > 1

\* C10 as stated: at most 81 invocations of solve are active at once.
C10_Original == Len(stack) <= 81

\* C10 amended: at most 82 invocations of solve are active at once: one
\* per grid position and the final call solve(81, s).
C10_DepthAtMost82 == Len(stack) <= 82

C10_Witness ==
  Len(stack) = 82 /\ Top.p = 81 /\ placements > 0

=============================================================================
